---- MODULE Spec2Model ----
(***************************************************************************)
(* Brazilian Room availability checker (check_availability.ts).            *)
(*                                                                         *)
(* One run of the script is a process that fetches the configured date    *)
(* range chunks one after the other, classifies the Saturday records and   *)
(* then notifies.  Every external call (API fetch, osascript, ntfy POST)   *)
(* is split in an issue step and a return step, so that calls in flight    *)
(* are part of the state.  cron starting the script again is NewRun.       *)
(***************************************************************************)
EXTENDS Integers, Sequences, FiniteSets, TLC

\* ---------------------------------------------------------------- bounds
\* total number of daily records the API returns over one sweep
MaxRecs == 2
\* the call counters saturate here (anything above 1 is "more than once")
CountCap == 2

\* ---------------------------------------------------------------- config
STATUS_AVAILABLE == 0

D(month, day) == [y |-> 2027, m |-> month, d |-> day]

DATE_RANGES ==
    << <<D(6, 1), D(7, 14)>>,
       <<D(7, 15), D(8, 27)>>,
       <<D(8, 28), D(8, 31)>> >>

NumChunks == Len(DATE_RANGES)

\* UTC offsets (hours east of UTC) of the host the script runs on
HostOffsets == {-7, 14}

\* DailyDetail = { date, status, times }: what the API reports for Friday
\* 4 June and Saturday 5 June 2027, and Saturday 17 July 2027 as bookable
DailyDetail ==
    [date : {D(6, 4), D(6, 5)}, status : {0, 1}, times : {<<>>, <<"slot">>}]
        \cup {[date |-> D(7, 17), status |-> 0, times |-> <<"slot">>]}

\* ---------------------------------------------------------------- JS Date
\* Instants are hours since 2027-01-01T00:00Z.
MonthDays == <<31, 28, 31, 30, 31, 30, 31, 31, 30, 31, 30, 31>>

WeekdayNames ==
    <<"Sunday", "Monday", "Tuesday", "Wednesday", "Thursday", "Friday", "Saturday">>

RECURSIVE DaysBefore(_)
DaysBefore(m) == IF m = 1 THEN 0 ELSE MonthDays[m - 1] + DaysBefore(m - 1)

\* days of 2027 before the first of each month
MonthStart == [m \in 1..12 |-> DaysBefore(m)]

\* days from 1 Jan 2027 to the calendar date
DayIndex(date) == MonthStart[date.m] + date.d - 1

RECURSIVE DateFrom(_, _)
DateFrom(n, m) ==
    IF n < MonthDays[m] THEN D(m, n + 1) ELSE DateFrom(n - MonthDays[m], m + 1)

\* the calendar of 2027: the date of every day index
Calendar == [n \in 0..364 |-> DateFrom(n, 1)]

\* the calendar date of a day index (inside 2027)
DateOfIndex(n) == Calendar[n]

\* weekday number of a day index, 0 = Sunday; 1 Jan 2027 is a Friday
WeekdayOfIndex(n) == (n + 5) % 7

\* new Date(`${dateStr}T12:00:00`): no zone suffix, so noon in the host's zone
ParseLocalNoon(date, off) == DayIndex(date) * 24 + 12 - off

\* Date.prototype.getDay(): weekday of the instant in the host's zone
getDay(t, off) == WeekdayOfIndex((t + off) \div 24)

\* America/Los_Angeles: PDT from 14 Mar 2027 10:00Z to 7 Nov 2027 09:00Z
LAOffset(t) ==
    IF t >= DayIndex(D(3, 14)) * 24 + 10 /\ t < DayIndex(D(11, 7)) * 24 + 9
    THEN -7 ELSE -8

\* day index of the instant on the America/Los_Angeles calendar
LADayIndex(t) == (t + LAOffset(t)) \div 24

\* ---------------------------------------------------------------- helpers
isSaturday(date, off) == getDay(ParseLocalNoon(date, off), off) = 6

\* weekday: long, year: numeric, month: long, day: numeric
formatLabel(date, off) ==
    LET n == LADayIndex(ParseLocalNoon(date, off))
        c == DateOfIndex(n)
    IN  [weekday |-> WeekdayNames[WeekdayOfIndex(n) + 1],
         y |-> c.y, m |-> c.m, d |-> c.d]

\* month: short, day: numeric
formatShort(date, off) ==
    LET c == DateOfIndex(LADayIndex(ParseLocalNoon(date, off)))
    IN  [m |-> c.m, d |-> c.d]

LogLine(level, msg, arg) == <<level, msg, arg>>

\* ---------------------------------------------------------------- API
\* What one fetch of the reservation API can come back with.
Resp(rej, httpOk, code, has, details) ==
    [rejects |-> rej, ok |-> httpOk, response_code |-> code,
     hasDetails |-> has, daily_details |-> details]

RespReject == Resp(TRUE, FALSE, "", FALSE, <<>>)
RespHttp500 == Resp(FALSE, FALSE, "", FALSE, <<>>)
RespApiError == Resp(FALSE, TRUE, "9999", FALSE, <<>>)
RespNoField == Resp(FALSE, TRUE, "0000", FALSE, <<>>)
RespOk(details) == Resp(FALSE, TRUE, "0000", TRUE, details)

DetailLists(n) == UNION {[1..k -> DailyDetail] : k \in 0..n}

\* responses whose record count fits what is left of the sweep's budget
Responses(room) ==
    {RespReject, RespHttp500, RespApiError, RespNoField}
        \cup {RespOk(l) : l \in DetailLists(room)}

\* fetchRange after the HTTP exchange: throws or returns the daily records
fetchRangeNoHttpCheck(resp) ==
    IF resp.rejects THEN [threw |-> TRUE, value |-> <<>>]
    ELSE IF resp.ok /\ resp.response_code # "0000" THEN [threw |-> TRUE, value |-> <<>>]
    ELSE [threw |-> FALSE,
          value |-> IF resp.hasDetails THEN resp.daily_details ELSE <<>>]

fetchRangeStrictShape(resp) ==
    IF resp.rejects THEN [threw |-> TRUE, value |-> <<>>]
    ELSE IF ~resp.ok THEN [threw |-> TRUE, value |-> <<>>]
    ELSE IF resp.response_code # "0000" THEN [threw |-> TRUE, value |-> <<>>]
    ELSE IF ~resp.hasDetails THEN [threw |-> TRUE, value |-> <<>>]
    ELSE [threw |-> FALSE, value |-> resp.daily_details]

fetchRange(resp) ==
    IF resp.rejects THEN [threw |-> TRUE, value |-> <<>>]
    ELSE IF ~resp.ok THEN [threw |-> TRUE, value |-> <<>>]
    ELSE IF resp.response_code # "0000" THEN [threw |-> TRUE, value |-> <<>>]
    ELSE [threw |-> FALSE,
          value |-> IF resp.hasDetails THEN resp.daily_details ELSE <<>>]

\* ---------------------------------------------------------------- checker
IsAvailableStatusOnly(entry) == entry.status = STATUS_AVAILABLE

\* entry.status === STATUS_AVAILABLE && entry.times.length > 0
IsAvailable(entry) ==
    entry.status = STATUS_AVAILABLE /\ Len(entry.times) > 0

\* the loop over allDetails, from entry k on: the dates pushed to available
RECURSIVE ScanList(_, _, _)
ScanList(details, k, off) ==
    IF k > Len(details) THEN <<>>
    ELSE (IF ~isSaturday(details[k].date, off) THEN <<>>
          ELSE IF IsAvailable(details[k]) THEN <<details[k].date>>
          ELSE <<>>)
             \o ScanList(details, k + 1, off)

\* the same loop: the disposition logged for each Saturday entry
RECURSIVE ScanLog(_, _, _)
ScanLog(details, k, off) ==
    IF k > Len(details) THEN <<>>
    ELSE (IF ~isSaturday(details[k].date, off) THEN <<>>
          ELSE IF IsAvailable(details[k])
          THEN <<LogLine("INFO", "AVAILABLE on",
                         <<formatLabel(details[k].date, off)>>)>>
          ELSE <<LogLine("INFO", "Not available on",
                         <<formatLabel(details[k].date, off)>>)>>)
             \o ScanLog(details, k + 1, off)

\* a list persisted from the previous run instead of rebuilt
StaleAvailable(prev) == prev

\* const available: string[] = []  -- rebuilt from empty on every run
FreshAvailable(prev) == <<>>

AlwaysNotify(avail) == TRUE

\* if (available.length > 0)
ShouldNotify(avail) == Len(avail) > 0

NoAwait(calls) == TRUE

\* await / spawnSync: the program continues only when no call is outstanding
Awaited(calls) == calls = {}

LoopStuck(k) == IF k = 0 THEN 1 ELSE k

\* for (const [start, end] of DATE_RANGES): on to the next chunk
LoopAdvance(k) == k + 1

Bump(n) == IF n < CountCap THEN n + 1 ELSE CountCap

\* ---------------------------------------------------------------- state
VARIABLES
    hostOffset,   \* UTC offset of the host's zone
    pc,           \* control state of main()
    pending,      \* external calls issued and not yet returned
    issued,       \* number of loop iterations of the sweep started
    responses,    \* the API responses received in this run, in order
    allDetails,   \* checkAvailability's allDetails
    available,    \* checkAvailability's available / main's available
    localCalls,   \* osascript invocations of this run: [title, message]
    localDone,    \* spawnSync has returned
    remoteCalls,  \* ntfy POSTs of this run: [title, message]
    log,          \* lines written to stdout in this run
    exitCode,     \* -1 while the process runs
    fetchCount,   \* fetches issued per chunk in this run
    history       \* dates that earlier runs notified as available

vars == <<hostOffset, pc, pending, issued, responses, allDetails, available,
          localCalls, localDone, remoteCalls, log, exitCode, fetchCount, history>>

Terminal == {"DONE", "FATAL"}

Init ==
    /\ hostOffset \in HostOffsets
    /\ pc = "START"
    /\ pending = {}
    /\ issued = 0
    /\ responses = <<>>
    /\ allDetails = <<>>
    /\ available = <<>>
    /\ localCalls = <<>>
    /\ localDone = FALSE
    /\ remoteCalls = <<>>
    /\ log = <<>>
    /\ exitCode = -1
    /\ fetchCount = [k \in 1..NumChunks |-> 0]
    /\ history = {}

\* main().catch: log the error and process.exit(1)
Fatal(msg) ==
    /\ pc' = "FATAL"
    /\ log' = Append(log, LogLine("ERROR", msg, <<>>))
    /\ exitCode' = 1

\* main: banner, then checkAvailability()
Start ==
    /\ pc = "START"
    /\ pc' = "FETCHING"
    /\ log' = Append(log, LogLine("INFO", "check starting", <<>>))
    /\ UNCHANGED <<hostOffset, pending, issued, responses, allDetails, available,
                   localCalls, localDone, remoteCalls, exitCode, fetchCount, history>>

\* fetchRange(start, end): the GET is sent
IssueFetch ==
    /\ pc = "FETCHING"
    /\ Awaited(pending)
    /\ issued < NumChunks
    /\ LET k == LoopAdvance(issued) IN
        /\ issued' = k
        /\ pending' = pending \cup
              {[op |-> "fetch", chunk |-> k,
                start |-> DATE_RANGES[k][1], end |-> DATE_RANGES[k][2]]}
        /\ fetchCount' = [fetchCount EXCEPT ![k] = Bump(@)]
    /\ UNCHANGED <<hostOffset, pc, responses, allDetails, available, localCalls,
                   localDone, remoteCalls, log, exitCode, history>>

\* the GET comes back: fetchRange throws or its records are pushed
FetchReturn ==
    /\ pc = "FETCHING"
    /\ \E c \in pending :
        /\ c.op = "fetch"
        /\ \E resp \in Responses(MaxRecs - Len(allDetails)) :
            LET r == fetchRange(resp) IN
            /\ pending' = pending \ {c}
            /\ responses' = Append(responses, resp)
            /\ IF r.threw
               THEN /\ Fatal("Fatal: fetchRange")
                    /\ UNCHANGED allDetails
               ELSE /\ allDetails' = allDetails \o r.value
                    /\ UNCHANGED <<pc, log, exitCode>>
    /\ UNCHANGED <<hostOffset, issued, available, localCalls, localDone,
                   remoteCalls, fetchCount, history>>

\* checkAvailability after the loop: warn if empty, filter, classify, return
Classify ==
    /\ pc = "FETCHING"
    /\ issued >= NumChunks
    /\ Awaited(pending)
    /\ available' = available \o ScanList(allDetails, 1, hostOffset)
    /\ log' = (IF Len(allDetails) = 0
               THEN Append(log, LogLine("WARNING", "no daily_details", <<>>))
               ELSE log)
                  \o ScanLog(allDetails, 1, hostOffset)
    /\ pc' = "CLASSIFIED"
    /\ UNCHANGED <<hostOffset, pending, issued, responses, allDetails, localCalls,
                   localDone, remoteCalls, exitCode, fetchCount, history>>

\* available.map(formatShort), joined for the message
Summary == [k \in 1..Len(available) |-> formatShort(available[k], hostOffset)]

\* available.map(formatLabel), the bulleted detail
Detail == [k \in 1..Len(available) |-> formatLabel(available[k], hostOffset)]

\* main: branch on available.length
Branch ==
    /\ pc = "CLASSIFIED"
    /\ IF ShouldNotify(available)
       THEN /\ pc' = "NOTIFYING_AVAILABLE"
            /\ log' = Append(log, LogLine("INFO", "AVAILABLE DATES FOUND", Detail))
       ELSE /\ pc' = "NOTIFYING_UNAVAILABLE"
            /\ UNCHANGED log
    /\ UNCHANGED <<hostOffset, pending, issued, responses, allDetails, available,
                   localCalls, localDone, remoteCalls, exitCode, fetchCount, history>>

\* sendNotification: osascript is spawned
IssueLocal ==
    /\ pc = "NOTIFYING_AVAILABLE"
    /\ Awaited(pending)
    /\ localCalls = <<>>
    /\ localCalls' = Append(localCalls,
                        [title |-> "AVAILABLE!", message |-> <<"Open on", Summary>>])
    /\ pending' = pending \cup {[op |-> "local"]}
    /\ UNCHANGED <<hostOffset, pc, issued, responses, allDetails, available,
                   localDone, remoteCalls, log, exitCode, fetchCount, history>>

\* spawnSync returns with osascript's exit code (osascript is part of macOS,
\* the platform the README requires, so the spawn itself succeeds)
LocalReturn ==
    /\ [op |-> "local"] \in pending
    /\ \E code \in {0, 1} :
        log' = Append(log,
                 IF code # 0
                 THEN LogLine("ERROR", "Desktop notification failed", <<>>)
                 ELSE LogLine("INFO", "Desktop notification sent.", <<>>))
    /\ pending' = pending \ {[op |-> "local"]}
    /\ localDone' = TRUE
    /\ UNCHANGED <<hostOffset, pc, issued, responses, allDetails, available,
                   localCalls, remoteCalls, exitCode, fetchCount, history>>

\* sendNtfy: the POST is sent
IssueRemote ==
    /\ Awaited(pending)
    /\ remoteCalls = <<>>
    /\ \/ /\ pc = "NOTIFYING_AVAILABLE"
          /\ localDone
          /\ remoteCalls' = Append(remoteCalls,
                [title |-> "AVAILABLE!", message |-> <<"Open on", Summary>>])
       \/ /\ pc = "NOTIFYING_UNAVAILABLE"
          /\ remoteCalls' = Append(remoteCalls,
                [title |-> "NOT AVAILABLE!",
                 message |-> <<"No availability found for any target Saturday.">>])
    /\ pending' = pending \cup {[op |-> "remote"]}
    /\ UNCHANGED <<hostOffset, pc, issued, responses, allDetails, available,
                   localCalls, localDone, log, exitCode, fetchCount, history>>

\* the POST comes back: sendNtfy logs the outcome, main finishes; a rejected
\* fetch() is not caught in sendNtfy nor in main, so it ends in main().catch
RemoteReturn ==
    /\ [op |-> "remote"] \in pending
    /\ pending' = pending \ {[op |-> "remote"]}
    /\ \E outcome \in {"ok", "http", "reject"} :
        IF outcome = "reject"
        THEN Fatal("Fatal: sendNtfy")
        ELSE LET l1 == Append(log,
                         IF outcome = "http"
                         THEN LogLine("ERROR", "ntfy notification failed", <<>>)
                         ELSE LogLine("INFO", "ntfy notification sent.", <<>>))
                 l2 == IF pc = "NOTIFYING_UNAVAILABLE"
                       THEN Append(l1, LogLine("INFO", "No availability found", <<>>))
                       ELSE l1
             IN  /\ log' = Append(l2, LogLine("INFO", "Check complete", <<>>))
                 /\ pc' = "DONE"
                 /\ exitCode' = 0
    /\ UNCHANGED <<hostOffset, issued, responses, allDetails, available,
                   localCalls, localDone, remoteCalls, fetchCount, history>>

\* cron starts the script again: a new process, nothing kept but the world
NewRun ==
    /\ pc \in Terminal
    /\ pc' = "START"
    /\ pending' = {}
    /\ issued' = 0
    /\ responses' = <<>>
    /\ allDetails' = <<>>
    /\ available' = FreshAvailable(available)
    /\ localCalls' = <<>>
    /\ localDone' = FALSE
    /\ remoteCalls' = <<>>
    /\ log' = <<>>
    /\ exitCode' = -1
    /\ fetchCount' = [k \in 1..NumChunks |-> 0]
    /\ history' = IF localCalls # <<>>
                  THEN history \cup {available[k] : k \in 1..Len(available)}
                  ELSE history
    /\ UNCHANGED hostOffset

Next ==
    \/ Start
    \/ IssueFetch
    \/ FetchReturn
    \/ Classify
    \/ Branch
    \/ IssueLocal
    \/ LocalReturn
    \/ IssueRemote
    \/ RemoteReturn

NextRuns == Next \/ NewRun

\* one run of the script
Spec == Init /\ [][Next]_vars

\* one run in which the program and every external call make progress
FairSpec == Spec /\ WF_vars(Next)

\* the script run again and again by cron
SpecRuns == Init /\ [][NextRuns]_vars

\* ---------------------------------------------------------------- properties
\* the sweep returned: checkAvailability's result exists
SweepDone ==
    pc \in {"CLASSIFIED", "NOTIFYING_AVAILABLE", "NOTIFYING_UNAVAILABLE", "DONE"}
        \/ (pc = "FATAL" /\ remoteCalls # <<>>)

\* the fetch of a chunk failed: transport error, non-2xx or response_code # '0000'
IsFailure(resp) == resp.rejects \/ ~resp.ok \/ resp.response_code # "0000"

\* a 2xx, '0000' response without the daily_details field
IsNoField(resp) == ~IsFailure(resp) /\ ~resp.hasDetails

RECURSIVE ConcatRecords(_)
ConcatRecords(rs) ==
    IF rs = <<>> THEN <<>>
    ELSE (IF Head(rs).hasDetails THEN Head(rs).daily_details ELSE <<>>)
             \o ConcatRecords(Tail(rs))

\* Saturday by the calendar alone, no clock and no zone
CalendarSaturday(date) == WeekdayOfIndex(DayIndex(date)) = 6

RefKeep(e) == CalendarSaturday(e.date) /\ e.status = 0 /\ e.times # <<>>

\* the reference result of this run's responses
Reference ==
    LET kept == SelectSeq(ConcatRecords(responses), RefKeep)
    IN  [k \in 1..Len(kept) |-> kept[k].date]

Warned == \E k \in 1..Len(log) : log[k][1] = "WARNING"

Completed == log # <<>> /\ log[Len(log)][2] = "Check complete"

OwnLabel(date) == [weekday |-> "Saturday", y |-> date.y, m |-> date.m, d |-> date.d]
OwnShort(date) == [m |-> date.m, d |-> date.d]

AvailableCall == [title |-> "AVAILABLE!", message |-> <<"Open on", Summary>>]
UnavailableCall ==
    [title |-> "NOT AVAILABLE!",
     message |-> <<"No availability found for any target Saturday.">>]

\* C1: when all chunk fetches succeed, checkAvailability returns the dates of
\* exactly the records, in chunk and API order and without deduplication, that
\* are a Saturday with status 0 and a non-empty times list.
C1_ResultIsReference == SweepDone => available = Reference

\* a Friday with status 0 and times is left out, the same Saturday is kept twice
C1_Witness ==
    /\ SweepDone
    /\ \E k \in 1..Len(allDetails) :
          /\ ~CalendarSaturday(allDetails[k].date)
          /\ allDetails[k].status = 0
          /\ allDetails[k].times # <<>>
    /\ Len(available) = 1

\* C2: if the fetch of any chunk fails, the run ends fatal with exit code 1,
\* no availability result is produced from the chunks already fetched and
\* neither notification channel is ever invoked.
C2_FetchFailureIsFatal ==
    (\E k \in 1..Len(responses) : IsFailure(responses[k])) =>
        /\ pc = "FATAL"
        /\ exitCode = 1
        /\ available = <<>>
        /\ localCalls = <<>>
        /\ remoteCalls = <<>>
        /\ pending = {}
        /\ IsFailure(responses[Len(responses)])
        /\ issued = Len(responses)

\* the second chunk fails after the first returned an available Saturday
C2_Witness ==
    /\ Len(responses) = 2
    /\ IsFailure(responses[2])
    /\ \E k \in 1..Len(allDetails) : RefKeep(allDetails[k])
    /\ pc = "FATAL"

\* C3: when availability is found, a delivery failure of either channel is only
\* logged: the other channel is still attempted, the run reaches the completion
\* banner and the exit code is 0.
C3_BestEffort ==
    (pc \in Terminal /\ localCalls # <<>>) =>
        /\ remoteCalls # <<>>
        /\ pc = "DONE"
        /\ exitCode = 0
        /\ Completed

\* C4: after a successful sweep, a non-empty result invokes the local alert and
\* the remote push with the AVAILABLE title; an empty result invokes only the
\* remote push, with the NOT AVAILABLE title and the fixed message.
C4_ChannelsFollowResult ==
    /\ localCalls # <<>> => (SweepDone /\ available # <<>>)
    /\ remoteCalls # <<>> => SweepDone
    /\ (SweepDone /\ pc \in Terminal) =>
          IF available # <<>>
          THEN localCalls = <<AvailableCall>> /\ remoteCalls = <<AvailableCall>>
          ELSE localCalls = <<>> /\ remoteCalls = <<UnavailableCall>>

\* Saturdays were reported but none is available: only the push went out
C4_Witness ==
    /\ pc = "DONE"
    /\ available = <<>>
    /\ \E k \in 1..Len(allDetails) : CalendarSaturday(allDetails[k].date)
    /\ localCalls = <<>>
    /\ remoteCalls = <<UnavailableCall>>

AllowedTransitions ==
    {<<"START", "FETCHING">>, <<"FETCHING", "CLASSIFIED">>,
     <<"CLASSIFIED", "NOTIFYING_AVAILABLE">>, <<"CLASSIFIED", "NOTIFYING_UNAVAILABLE">>,
     <<"NOTIFYING_AVAILABLE", "DONE">>, <<"NOTIFYING_UNAVAILABLE", "DONE">>,
     <<"FETCHING", "FATAL">>}

C5_Step ==
    /\ pc' # pc => <<pc, pc'>> \in AllowedTransitions
    /\ pc' = "FATAL" => exitCode' = 1
    /\ pc' = "DONE" => exitCode' = 0
    /\ pc \in Terminal => pc' = pc

\* C5: main only follows START -> FETCHING -> CLASSIFIED -> NOTIFYING_* -> DONE
\* and FETCHING -> FATAL; FATAL (exit 1) is never entered from a notifying
\* state, a run that notifies ends DONE with exit 0, DONE and FATAL are final.
C5_Transitions == [][C5_Step]_vars

\* C6 as stated: a successful response without the daily records field is not
\* fatal, gives an empty list for the chunk, a warning is logged, the sweep
\* goes on and the other chunks' records are classified.
C6_WarningPerChunk ==
    (\E k \in 1..Len(responses) : IsNoField(responses[k])) =>
        /\ (pc = "FATAL" => SweepDone \/ ~IsNoField(responses[Len(responses)]))
        /\ SweepDone =>
              /\ Len(responses) = NumChunks
              /\ available = Reference
              /\ Warned

\* C6 amended: as above, but the warning is logged exactly when the records of
\* all chunks together are empty.
C6_WarningWhenAllEmpty ==
    (\E k \in 1..Len(responses) : IsNoField(responses[k])) =>
        /\ (pc = "FATAL" => SweepDone \/ ~IsNoField(responses[Len(responses)]))
        /\ SweepDone =>
              /\ Len(responses) = NumChunks
              /\ available = Reference
              /\ Len(allDetails) = Len(ConcatRecords(responses))
              /\ (Warned <=> allDetails = <<>>)

\* a chunk came without the field, another chunk's Saturday is classified
C6_Witness ==
    /\ SweepDone
    /\ \E k \in 1..Len(responses) : IsNoField(responses[k])
    /\ available # <<>>
    /\ ~Warned

\* C7: at most one external call is outstanding; chunk k+1 is fetched only
\* after the response of chunk k, no notification is issued before the last
\* response, and the push is issued only after the local alert has returned.
C7_OneCallAtATime ==
    /\ Cardinality(pending) <= 1
    /\ \A c \in pending :
          /\ c.op = "fetch" => Len(responses) = c.chunk - 1
          /\ c.op # "fetch" => Len(responses) = NumChunks
    /\ (localCalls # <<>> \/ remoteCalls # <<>>) => Len(responses) = NumChunks
    /\ (remoteCalls # <<>> /\ localCalls # <<>>) =>
          (localDone /\ [op |-> "local"] \notin pending)

\* the push is in flight after the local alert returned
C7_Witness ==
    /\ pending = {[op |-> "remote"]}
    /\ localCalls # <<>>
    /\ localDone

\* C8: nothing is carried from run to run: the result is the reference result
\* of this run's responses and every run that finds an available date notifies
\* on both channels, also for dates an earlier run has notified.
C8_NoStateAcrossRuns ==
    /\ pc = "START" =>
          /\ available = <<>> /\ allDetails = <<>> /\ responses = <<>>
          /\ localCalls = <<>> /\ remoteCalls = <<>>
    /\ SweepDone => available = Reference
    /\ (SweepDone /\ pc \in Terminal /\ available # <<>>) =>
          /\ localCalls = <<AvailableCall>>
          /\ remoteCalls = <<AvailableCall>>

\* a later run notifies again for dates that were notified before
C8_Witness ==
    /\ pc = "DONE"
    /\ available # <<>>
    /\ \A k \in 1..Len(available) : available[k] \in history
    /\ localCalls = <<AvailableCall>>
    /\ remoteCalls = <<AvailableCall>>

CallsWithinLimits ==
    /\ \A k \in 1..NumChunks : fetchCount[k] <= 1
    /\ Len(localCalls) <= 1
    /\ Len(remoteCalls) <= 1

\* C9: if every external call returns or fails, the run reaches DONE or FATAL
\* after at most one fetch per chunk, one local alert and one push; a run that
\* is not terminal and cannot step is waiting for an external call.
C9_Terminates ==
    /\ <>(pc \in Terminal)
    /\ [](CallsWithinLimits)
    /\ []((pc \notin Terminal /\ pending = {}) => ENABLED Next)

\* a run that used every call once and completed
C9_Witness ==
    /\ pc = "DONE"
    /\ \A k \in 1..NumChunks : fetchCount[k] = 1
    /\ Len(localCalls) = 1
    /\ Len(remoteCalls) = 1

\* C10: for every date and host offset, the long label and the short form of a
\* record that passes the Saturday filter name the record's own calendar date.
C10_LabelsNameOwnDate ==
    SweepDone =>
        /\ \A k \in 1..Len(allDetails) :
              isSaturday(allDetails[k].date, hostOffset) =>
                  \E j \in 1..Len(log) :
                      /\ log[j][2] \in {"AVAILABLE on", "Not available on"}
                      /\ log[j][3] = <<OwnLabel(allDetails[k].date)>>
        /\ Summary = [k \in 1..Len(available) |-> OwnShort(available[k])]
        /\ Detail = [k \in 1..Len(available) |-> OwnLabel(available[k])]

====
